---- MODULE Spec2Model ----
(***************************************************************************)
(* The auction canister (azle / Internet Computer).  The repository holds  *)
(* three revisions of the same canister; each is modelled, and a behaviour *)
(* runs exactly one of them (the variable version, fixed by Init):         *)
(*                                                                         *)
(*   "index"      src/src/index.ts            ownerId is a generated uuid  *)
(*                                            and callers pass it as an    *)
(*                                            argument                     *)
(*   "principal"  src/unnamed/part_000:1-173  owner is ic.caller()         *)
(*   "refined"    src/unnamed/part_000:175-477 validated ids and payloads, *)
(*                                            time window checks           *)
(*                                                                         *)
(* The host serialises calls: every call is one atomic step, and ic.time() *)
(* is constant within a call and never decreases between calls.            *)
(*                                                                         *)
(* Strings that the code inspects (trim, truthiness) are sequences of      *)
(* one-character strings; strings that are only compared are TLA+ strings. *)
(* A uuid string is the natural number n of the uuidv4() call that made it *)
(* (uuidv4 is taken to return fresh values); 0 is a string that is not a   *)
(* well-formed uuid.  Principals are the numbers in Principals.            *)
(* The query methods getActiveAuctions and getExpiredAuctions, which only  *)
(* the revision of part_000:1-173 has, are not modelled.                   *)
(* The size limits of the StableBTreeMap (keys of 44 bytes, values of 1024 *)
(* bytes) are not modelled: the payloads are short.                        *)
(***************************************************************************)
EXTENDS Integers, Sequences, FiniteSets, TLC

\* ------------------------------------------------------------------ bounds
\* Number of auctions a behaviour creates.
MaxAuctions == 2
\* Last clock value a behaviour reaches.
MaxTime == 3

\* --------------------------------------------------------------- constants
\* const fixedEndDate: the clock unit of the model is half of it.
fixedEndDate == 2

Versions == {"index", "principal", "refined"}

Principals == {101, 102}

\* uuidv4 calls one createAuction makes: index.ts draws the id and the ownerId.
UuidsPerCreate(v) == IF v = "index" THEN 2 ELSE 1

\* The ids createAuction can give to auctions: its first uuidv4 call of each create.
AuctionIds(v) == {UuidsPerCreate(v) * (k - 1) + 1 : k \in 1..MaxAuctions}

\* The ownerId argument (index.ts: the ownerIds createAuction can generate, each
\* a wrong one for every other auction) or ic.caller() (the other revisions).
Callers(v) == IF v = "index" THEN {2 * k : k \in 1..MaxAuctions} ELSE Principals

\* The auctionId argument of a call: an id createAuction can give (live, deleted
\* or not given yet), or a malformed string (0).
AuctionIdArgs(v) == {0} \cup AuctionIds(v)

Art == <<"a", "r", "t">>
Car == <<"c", "a", "r">>
Painting == <<"o", "i", "l">>
Sedan == <<"s", "e", "d">>
Alice == <<"a", "l">>
Bob == <<"b", "o", "b">>
Empty == <<>>
Blank == <<" ", " ">>

\* The ownerId argument of getOwnersAuctions: an owner's id, a malformed string,
\* or a uuid that is an auction's id.
OwnerIdArgs(v) == {0} \cup Callers(v) \cup AuctionIds(v)

\* The status argument of getAuctionsByStatus.
StatusArgs == {"active", "inactive", "pending", ""}

Payload(t, d, n, s) ==
    [assetType |-> t, assetDescription |-> d, ownerName |-> n, status |-> s]

\* The payloads a caller sends.
Payloads ==
    { Payload(Art, Painting, Alice, "active"),
      Payload(Car, Sedan, Bob, "inactive"),
      Payload(Empty, Painting, Alice, "active"),
      Payload(Art, Blank, Alice, "active"),
      Payload(Art, Painting, Alice, "pending"),
      Payload(Car, Sedan, Bob, "") }

VARIABLES version, store, uuidCalls, now, last

vars == <<version, store, uuidCalls, now, last>>

\* ----------------------------------------------------------------- helpers
IsSpace(c) == c \in {" ", "\t", "\n"}

RECURSIVE TrimStart(_)
TrimStart(s) ==
    IF s = <<>> THEN s
    ELSE IF IsSpace(Head(s)) THEN TrimStart(Tail(s)) ELSE s

RECURSIVE TrimEnd(_)
TrimEnd(s) ==
    IF s = <<>> THEN s
    ELSE IF IsSpace(s[Len(s)]) THEN TrimEnd(SubSeq(s, 1, Len(s) - 1)) ELSE s

\* String.prototype.trim
Trim(s) == TrimEnd(TrimStart(s))

\* function isInvalidString(str): str.trim().length == 0
isInvalidString(str) == Len(Trim(str)) = 0

\* JavaScript !s for a string s: true for the empty string only.
Falsy(s) == s = <<>>

\* JavaScript a || b for strings.
OrElse(a, b) == IF Falsy(a) THEN b ELSE a

\* function isValidUUID(id): the 8-4-4-4-12 pattern; 0 is the malformed id, and
\* the text of a principal (groups of five characters) does not match either.
isValidUUID(id) == id # 0 /\ id \notin Principals

\* function isAuctionStatusValid(status), index.ts and the refined revision.
isAuctionStatusValid(status) == status = "active" \/ status = "inactive"

\* The n-th call of uuidv4() (n calls were made before it).
uuidv4(n) == n + 1

\* StableBTreeMap: get, insert (insert-or-replace), remove.
Has(st, k) == k \in DOMAIN st

Insert(st, k, v) == [x \in DOMAIN st \cup {k} |-> IF x = k THEN v ELSE st[x]]

Remove(st, k) == [x \in DOMAIN st \ {k} |-> st[x]]

EmptyStore == [x \in {} |-> 0]

\* What a call returns and leaves behind: the store, the number of uuidv4
\* calls made, the result ("Ok" or the error it returned) and the records in
\* the Result: none in a Result.Err, one in a Result.Ok<Auction>, the list in a
\* Result.Ok<Vec<Auction>>.
Outcome(st, n, err) == [store |-> st, uuidCalls |-> n, err |-> err, val |-> <<>>]

Returned(st, n, val) == [store |-> st, uuidCalls |-> n, err |-> "Ok", val |-> val]

\* auctionStorage.values(): the stored records in the order of their keys (the
\* order of the model's numbers stands for the order of the uuid strings).
RECURSIVE SortedKeys(_)
SortedKeys(S) ==
    IF S = {} THEN <<>>
    ELSE LET m == CHOOSE x \in S : \A y \in S : x <= y
         IN <<m>> \o SortedKeys(S \ {m})

Values(st) == [i \in 1..Cardinality(DOMAIN st) |-> st[SortedKeys(DOMAIN st)[i]]]

\* Mutant: the fixed duration is subtracted from the creation time.
NewAuction_endsBeforeStart(id, ownerId, t, p) ==
    [id |-> id,
     assetType |-> p.assetType,
     assetDescription |-> p.assetDescription,
     ownerName |-> p.ownerName,
     ownerId |-> ownerId,
     startDate |-> t,
     endDate |-> t - fixedEndDate,
     status |-> p.status]

\* The record createAuction builds: { id, startDate, ownerId, endDate, ...payload }.
NewAuction(id, ownerId, t, p) ==
    [id |-> id,
     assetType |-> p.assetType,
     assetDescription |-> p.assetDescription,
     ownerName |-> p.ownerName,
     ownerId |-> ownerId,
     startDate |-> t,
     endDate |-> t + fixedEndDate,
     status |-> p.status]

\* { ...auction, ...payload }: the four payload fields replace the stored ones.
Spread(auction, p) ==
    [auction EXCEPT !.assetType = p.assetType,
                    !.assetDescription = p.assetDescription,
                    !.ownerName = p.ownerName,
                    !.status = p.status]

\* ------------------------------------------------- src/src/index.ts
getAllAuctions_index(st, n) == Returned(st, n, Values(st))

getAuctionById_index(st, n, auctionId) ==
    IF Has(st, auctionId) THEN Returned(st, n, <<st[auctionId]>>)
    ELSE Outcome(st, n, "NotFound")

getOwnersAuctions_index(st, n, ownerId) ==
    Returned(st, n, SelectSeq(Values(st), LAMBDA auction : auction.ownerId = ownerId))

getAuctionsByStatus_index(st, n, status) ==
    IF ~isAuctionStatusValid(status) THEN Outcome(st, n, "InvalidStatus")
    ELSE Returned(st, n, SelectSeq(Values(st), LAMBDA auction : auction.status = status))

createAuction_index(st, n, t, caller, p) ==
    IF Falsy(p.assetType) \/ Falsy(p.assetDescription) \/ Falsy(p.ownerName)
       \/ p.status = ""
    THEN Outcome(st, n, "Incomplete")
    ELSE LET auction == NewAuction(uuidv4(n), uuidv4(n + 1), t, p)
         IN Returned(Insert(st, auction.id, auction), n + 2, <<auction>>)

updateAuction_index(st, n, t, auctionId, caller, p) ==
    IF ~Has(st, auctionId) THEN Outcome(st, n, "NotFound")
    ELSE IF st[auctionId].ownerId # caller THEN Outcome(st, n, "NotOwner")
    ELSE LET updatedAuction == Spread(st[auctionId], p)
         IN Returned(Insert(st, st[auctionId].id, updatedAuction), n, <<updatedAuction>>)

\* Mutant: the ended record takes its ownerId from the id field.
endAuction_index_ownerSlip(st, n, t, auctionId, caller) ==
    IF ~Has(st, auctionId) THEN Outcome(st, n, "NotFound")
    ELSE IF st[auctionId].ownerId # caller THEN Outcome(st, n, "NotOwner")
    ELSE IF st[auctionId].endDate >= t THEN Outcome(st, n, "AlreadyEnded")
    ELSE LET endedAuction == [st[auctionId] EXCEPT !.endDate = t,
                                                   !.status = "inactive",
                                                   !.ownerId = st[auctionId].id]
         IN Returned(Insert(st, st[auctionId].id, endedAuction), n, <<endedAuction>>)

endAuction_index(st, n, t, auctionId, caller) ==
    IF ~Has(st, auctionId) THEN Outcome(st, n, "NotFound")
    ELSE IF st[auctionId].ownerId # caller THEN Outcome(st, n, "NotOwner")
    ELSE IF st[auctionId].endDate >= t THEN Outcome(st, n, "AlreadyEnded")
    ELSE LET endedAuction == [st[auctionId] EXCEPT !.endDate = t, !.status = "inactive"]
         IN Returned(Insert(st, st[auctionId].id, endedAuction), n, <<endedAuction>>)

\* Mutant: ownership is looked at before the record is removed.
deleteAuction_index_checksFirst(st, n, t, auctionId, caller) ==
    IF ~Has(st, auctionId) THEN Outcome(st, n, "NotFound")
    ELSE IF st[auctionId].ownerId # caller
         THEN Outcome(st, n, "NotOwner")
         ELSE Returned(Remove(st, auctionId), n, <<st[auctionId]>>)

\* auctionStorage.remove(auctionId) runs first; ownership is looked at afterwards.
deleteAuction_index(st, n, t, auctionId, caller) ==
    IF ~Has(st, auctionId) THEN Outcome(st, n, "NotFound")
    ELSE IF st[auctionId].ownerId # caller
         THEN Outcome(Remove(st, auctionId), n, "NotOwner")
         ELSE Returned(Remove(st, auctionId), n, <<st[auctionId]>>)

\* ------------------------------------- src/unnamed/part_000, lines 1-173
\* function isAuctionStatusValid(status) of this revision:
\* status === active || status !== inactive.
isAuctionStatusValid_principal(status) == status = "active" \/ status # "inactive"

getAllAuctions_principal(st, n) == Returned(st, n, Values(st))

getAuctionById_principal(st, n, auctionId) ==
    IF Has(st, auctionId) THEN Returned(st, n, <<st[auctionId]>>)
    ELSE Outcome(st, n, "NotFound")

\* The filter compares auction.owner.toString() with ic.caller.toString(), the
\* text of the function ic.caller: no principal's text equals it.
getOwnersAuctions_principal(st, n, ownerId) ==
    Returned(st, n, SelectSeq(Values(st), LAMBDA auction : FALSE))

getAuctionsByStatus_principal(st, n, status) ==
    IF ~isAuctionStatusValid_principal(status) THEN Outcome(st, n, "InvalidStatus")
    ELSE Returned(st, n, SelectSeq(Values(st), LAMBDA auction : auction.status = status))

createAuction_principal(st, n, t, caller, p) ==
    IF Falsy(p.assetType) \/ Falsy(p.assetDescription) \/ Falsy(p.ownerName)
       \/ p.status = ""
    THEN Outcome(st, n, "Incomplete")
    ELSE LET auction == NewAuction(uuidv4(n), caller, t, p)
         IN Returned(Insert(st, auction.id, auction), n + 1, <<auction>>)

\* Mutant: the updated record is written into an emptied store.
updateAuction_principal_wipes(st, n, t, auctionId, caller, p) ==
    IF ~Has(st, auctionId) THEN Outcome(st, n, "NotFound")
    ELSE IF st[auctionId].ownerId # caller THEN Outcome(st, n, "NotOwner")
    ELSE LET updatedAuction == Spread(st[auctionId], p)
         IN Returned(Insert(EmptyStore, st[auctionId].id, updatedAuction), n,
                     <<updatedAuction>>)

updateAuction_principal(st, n, t, auctionId, caller, p) ==
    IF ~Has(st, auctionId) THEN Outcome(st, n, "NotFound")
    ELSE IF st[auctionId].ownerId # caller THEN Outcome(st, n, "NotOwner")
    ELSE LET updatedAuction == Spread(st[auctionId], p)
         IN Returned(Insert(st, st[auctionId].id, updatedAuction), n, <<updatedAuction>>)

\* Mutant: the ended record's startDate is set to the call time as well.
endAuction_principal_restarts(st, n, t, auctionId, caller) ==
    IF ~Has(st, auctionId) THEN Outcome(st, n, "NotFound")
    ELSE IF st[auctionId].ownerId # caller THEN Outcome(st, n, "NotOwner")
    ELSE IF st[auctionId].endDate >= t THEN Outcome(st, n, "AlreadyEnded")
    ELSE LET endedAuction == [st[auctionId] EXCEPT !.endDate = t,
                                                   !.startDate = t,
                                                   !.status = "inactive"]
         IN Returned(Insert(st, st[auctionId].id, endedAuction), n, <<endedAuction>>)

endAuction_principal(st, n, t, auctionId, caller) ==
    IF ~Has(st, auctionId) THEN Outcome(st, n, "NotFound")
    ELSE IF st[auctionId].ownerId # caller THEN Outcome(st, n, "NotOwner")
    ELSE IF st[auctionId].endDate >= t THEN Outcome(st, n, "AlreadyEnded")
    ELSE LET endedAuction == [st[auctionId] EXCEPT !.endDate = t, !.status = "inactive"]
         IN Returned(Insert(st, st[auctionId].id, endedAuction), n, <<endedAuction>>)

deleteAuction_principal(st, n, t, auctionId, caller) ==
    IF ~Has(st, auctionId) THEN Outcome(st, n, "NotFound")
    ELSE IF st[auctionId].ownerId # caller
         THEN Outcome(Remove(st, auctionId), n, "NotOwner")
         ELSE Returned(Remove(st, auctionId), n, <<st[auctionId]>>)

\* ----------------------------------- src/unnamed/part_000, lines 175-477
getAllAuctions_refined(st, n) == Returned(st, n, Values(st))

\* Mutant: the lookup takes the record out of the store.
getAuctionById_refined_consumes(st, n, auctionId) ==
    IF ~isValidUUID(auctionId) THEN Outcome(st, n, "InvalidId")
    ELSE IF Has(st, auctionId) THEN Returned(Remove(st, auctionId), n, <<st[auctionId]>>)
    ELSE Outcome(st, n, "NotFound")

getAuctionById_refined(st, n, auctionId) ==
    IF ~isValidUUID(auctionId) THEN Outcome(st, n, "InvalidId")
    ELSE IF Has(st, auctionId) THEN Returned(st, n, <<st[auctionId]>>)
    ELSE Outcome(st, n, "NotFound")

getOwnersAuctions_refined(st, n, ownerId) ==
    IF ~isValidUUID(ownerId) THEN Outcome(st, n, "InvalidId")
    ELSE Returned(st, n, SelectSeq(Values(st), LAMBDA auction : auction.ownerId = ownerId))

getAuctionsByStatus_refined(st, n, status) ==
    IF ~isAuctionStatusValid(status) THEN Outcome(st, n, "InvalidStatus")
    ELSE Returned(st, n, SelectSeq(Values(st), LAMBDA auction : auction.status = status))

createAuction_refined(st, n, t, caller, p) ==
    IF isInvalidString(p.assetType) \/ isInvalidString(p.assetDescription)
       \/ isInvalidString(p.ownerName) \/ ~isAuctionStatusValid(p.status)
    THEN Outcome(st, n, "Incomplete")
    ELSE LET newAuction == NewAuction(uuidv4(n), caller, t, p)
         IN Returned(Insert(st, newAuction.id, newAuction), n + 1, <<newAuction>>)

\* Mutant: the ownership check of updateAuction is missing.
updateAuction_refined_noOwnerCheck(st, n, t, auctionId, caller, p) ==
    IF ~isValidUUID(auctionId) THEN Outcome(st, n, "InvalidId")
    ELSE IF isInvalidString(p.assetType) \/ isInvalidString(p.assetDescription)
            \/ isInvalidString(p.ownerName)
    THEN Outcome(st, n, "Incomplete")
    ELSE IF ~Has(st, auctionId) THEN Outcome(st, n, "NotFound")
    ELSE IF t >= st[auctionId].endDate THEN Outcome(st, n, "WindowElapsed")
    ELSE LET updatedAuction ==
                 [st[auctionId] EXCEPT
                     !.assetType = OrElse(p.assetType, @),
                     !.assetDescription = OrElse(p.assetDescription, @),
                     !.ownerName = OrElse(p.ownerName, @)]
         IN Returned(Insert(st, st[auctionId].id, updatedAuction), n, <<updatedAuction>>)

updateAuction_refined(st, n, t, auctionId, caller, p) ==
    IF ~isValidUUID(auctionId) THEN Outcome(st, n, "InvalidId")
    ELSE IF isInvalidString(p.assetType) \/ isInvalidString(p.assetDescription)
            \/ isInvalidString(p.ownerName)
    THEN Outcome(st, n, "Incomplete")
    ELSE IF ~Has(st, auctionId) THEN Outcome(st, n, "NotFound")
    ELSE IF st[auctionId].ownerId # caller THEN Outcome(st, n, "NotOwner")
    ELSE IF t >= st[auctionId].endDate THEN Outcome(st, n, "WindowElapsed")
    ELSE LET updatedAuction ==
                 [id |-> st[auctionId].id,
                  assetType |-> OrElse(p.assetType, st[auctionId].assetType),
                  assetDescription |->
                      OrElse(p.assetDescription, st[auctionId].assetDescription),
                  ownerName |-> OrElse(p.ownerName, st[auctionId].ownerName),
                  ownerId |-> st[auctionId].ownerId,
                  startDate |-> st[auctionId].startDate,
                  endDate |-> st[auctionId].endDate,
                  status |-> st[auctionId].status]
         IN Returned(Insert(st, st[auctionId].id, updatedAuction), n, <<updatedAuction>>)

\* Mutant: the comparison of endDate with the clock is the wrong way round.
endAuction_refined_flippedTime(st, n, t, auctionId, caller) ==
    IF ~isValidUUID(auctionId) THEN Outcome(st, n, "InvalidId")
    ELSE IF ~Has(st, auctionId) THEN Outcome(st, n, "NotFound")
    ELSE IF st[auctionId].ownerId # caller THEN Outcome(st, n, "NotOwner")
    ELSE IF st[auctionId].status = "inactive" THEN Outcome(st, n, "AlreadyEnded")
    ELSE IF st[auctionId].endDate <= t THEN Outcome(st, n, "TimeLeft")
    ELSE LET endedAuction == [st[auctionId] EXCEPT !.endDate = t, !.status = "inactive"]
         IN Returned(Insert(st, st[auctionId].id, endedAuction), n, <<endedAuction>>)

endAuction_refined(st, n, t, auctionId, caller) ==
    IF ~isValidUUID(auctionId) THEN Outcome(st, n, "InvalidId")
    ELSE IF ~Has(st, auctionId) THEN Outcome(st, n, "NotFound")
    ELSE IF st[auctionId].ownerId # caller THEN Outcome(st, n, "NotOwner")
    ELSE IF st[auctionId].status = "inactive" THEN Outcome(st, n, "AlreadyEnded")
    ELSE IF st[auctionId].endDate >= t THEN Outcome(st, n, "TimeLeft")
    ELSE LET endedAuction ==
                 [id |-> st[auctionId].id,
                  assetType |-> st[auctionId].assetType,
                  assetDescription |-> st[auctionId].assetDescription,
                  ownerName |-> st[auctionId].ownerName,
                  ownerId |-> st[auctionId].ownerId,
                  startDate |-> st[auctionId].startDate,
                  endDate |-> t,
                  status |-> "inactive"]
         IN Returned(Insert(st, st[auctionId].id, endedAuction), n, <<endedAuction>>)

\* Mutant: the call reports success and leaves the record in the store.
deleteAuction_refined_keeps(st, n, t, auctionId, caller) ==
    IF ~isValidUUID(auctionId) THEN Outcome(st, n, "InvalidId")
    ELSE IF ~Has(st, auctionId) THEN Outcome(st, n, "NotFound")
    ELSE IF st[auctionId].ownerId # caller THEN Outcome(st, n, "NotOwner")
    ELSE Returned(st, n, <<st[auctionId]>>)

deleteAuction_refined(st, n, t, auctionId, caller) ==
    IF ~isValidUUID(auctionId) THEN Outcome(st, n, "InvalidId")
    ELSE IF ~Has(st, auctionId) THEN Outcome(st, n, "NotFound")
    ELSE IF st[auctionId].ownerId # caller THEN Outcome(st, n, "NotOwner")
    ELSE Returned(Remove(st, auctionId), n, <<st[auctionId]>>)

\* ------------------------------------------ the deployed revision's calls
getAllAuctions(v, st, n) ==
    CASE v = "index" -> getAllAuctions_index(st, n)
      [] v = "principal" -> getAllAuctions_principal(st, n)
      [] v = "refined" -> getAllAuctions_refined(st, n)

getAuctionById(v, st, n, auctionId) ==
    CASE v = "index" -> getAuctionById_index(st, n, auctionId)
      [] v = "principal" -> getAuctionById_principal(st, n, auctionId)
      [] v = "refined" -> getAuctionById_refined(st, n, auctionId)

getOwnersAuctions(v, st, n, ownerId) ==
    CASE v = "index" -> getOwnersAuctions_index(st, n, ownerId)
      [] v = "principal" -> getOwnersAuctions_principal(st, n, ownerId)
      [] v = "refined" -> getOwnersAuctions_refined(st, n, ownerId)

getAuctionsByStatus(v, st, n, status) ==
    CASE v = "index" -> getAuctionsByStatus_index(st, n, status)
      [] v = "principal" -> getAuctionsByStatus_principal(st, n, status)
      [] v = "refined" -> getAuctionsByStatus_refined(st, n, status)

createAuction(v, st, n, t, caller, p) ==
    CASE v = "index" -> createAuction_index(st, n, t, caller, p)
      [] v = "principal" -> createAuction_principal(st, n, t, caller, p)
      [] v = "refined" -> createAuction_refined(st, n, t, caller, p)

updateAuction(v, st, n, t, auctionId, caller, p) ==
    CASE v = "index" -> updateAuction_index(st, n, t, auctionId, caller, p)
      [] v = "principal" -> updateAuction_principal(st, n, t, auctionId, caller, p)
      [] v = "refined" -> updateAuction_refined(st, n, t, auctionId, caller, p)

endAuction(v, st, n, t, auctionId, caller) ==
    CASE v = "index" -> endAuction_index(st, n, t, auctionId, caller)
      [] v = "principal" -> endAuction_principal(st, n, t, auctionId, caller)
      [] v = "refined" -> endAuction_refined(st, n, t, auctionId, caller)

deleteAuction(v, st, n, t, auctionId, caller) ==
    CASE v = "index" -> deleteAuction_index(st, n, t, auctionId, caller)
      [] v = "principal" -> deleteAuction_principal(st, n, t, auctionId, caller)
      [] v = "refined" -> deleteAuction_refined(st, n, t, auctionId, caller)

\* ----------------------------------------------------------------- actions
Init ==
    /\ version \in Versions
    /\ store = EmptyStore
    /\ uuidCalls = 0
    /\ now = 0
    /\ last = [op |-> "none", err |-> "Ok"]

Apply(op, r) ==
    /\ store' = r.store
    /\ uuidCalls' = r.uuidCalls
    /\ last' = [op |-> op, err |-> r.err]
    /\ UNCHANGED <<version, now>>

\* One call of each update method, with its arguments.
CreateAuctionCall(caller, p) ==
    LET r == createAuction(version, store, uuidCalls, now, caller, p)
    IN /\ r.uuidCalls <= MaxAuctions * UuidsPerCreate(version)
       /\ Apply("createAuction", r)

UpdateAuctionCall(auctionId, caller, p) ==
    Apply("updateAuction",
          updateAuction(version, store, uuidCalls, now, auctionId, caller, p))

EndAuctionCall(auctionId, caller) ==
    Apply("endAuction", endAuction(version, store, uuidCalls, now, auctionId, caller))

DeleteAuctionCall(auctionId, caller) ==
    Apply("deleteAuction",
          deleteAuction(version, store, uuidCalls, now, auctionId, caller))

\* One call of each query method, with its arguments.
GetAllAuctionsCall ==
    Apply("getAllAuctions", getAllAuctions(version, store, uuidCalls))

GetAuctionByIdCall(auctionId) ==
    Apply("getAuctionById", getAuctionById(version, store, uuidCalls, auctionId))

GetOwnersAuctionsCall(ownerId) ==
    Apply("getOwnersAuctions", getOwnersAuctions(version, store, uuidCalls, ownerId))

GetAuctionsByStatusCall(status) ==
    Apply("getAuctionsByStatus",
          getAuctionsByStatus(version, store, uuidCalls, status))

GetAllAuctions == GetAllAuctionsCall

GetAuctionById == \E auctionId \in AuctionIdArgs(version) : GetAuctionByIdCall(auctionId)

GetOwnersAuctions == \E ownerId \in OwnerIdArgs(version) : GetOwnersAuctionsCall(ownerId)

GetAuctionsByStatus == \E status \in StatusArgs : GetAuctionsByStatusCall(status)

CreateAuction ==
    \E caller \in Callers(version), p \in Payloads : CreateAuctionCall(caller, p)

UpdateAuction ==
    \E auctionId \in AuctionIdArgs(version), caller \in Callers(version),
       p \in Payloads : UpdateAuctionCall(auctionId, caller, p)

EndAuction ==
    \E auctionId \in AuctionIdArgs(version), caller \in Callers(version) :
        EndAuctionCall(auctionId, caller)

DeleteAuction ==
    \E auctionId \in AuctionIdArgs(version), caller \in Callers(version) :
        DeleteAuctionCall(auctionId, caller)

\* The clock (ic.time()) advances between calls.
Tick ==
    /\ now < MaxTime
    /\ now' = now + 1
    /\ UNCHANGED <<version, store, uuidCalls, last>>

Next ==
    \/ GetAllAuctions
    \/ GetAuctionById
    \/ GetOwnersAuctions
    \/ GetAuctionsByStatus
    \/ CreateAuction
    \/ UpdateAuction
    \/ EndAuction
    \/ DeleteAuction
    \/ Tick

Spec == Init /\ [][Next]_vars

\* The same canister with one revision deployed.
InitIndex == Init /\ version = "index"

InitPrincipal == Init /\ version = "principal"

InitRefined == Init /\ version = "refined"

SpecIndex == InitIndex /\ [][Next]_vars

SpecPrincipal == InitPrincipal /\ [][Next]_vars

SpecRefined == InitRefined /\ [][Next]_vars

\* The two revisions that precede the refined one.
InitEarlier == Init /\ version \in {"index", "principal"}

SpecEarlier == InitEarlier /\ [][Next]_vars

\* ------------------------------------------------------------------ claims
Owner(id) == store[id].ownerId

\* The spec's StateError: the record's lifecycle state forbids the call.
StateErrors == {"WindowElapsed", "AlreadyEnded", "TimeLeft"}

\* Payloads that pass the refined revision's updateAuction validation.
ValidTexts(p) ==
    /\ ~isInvalidString(p.assetType)
    /\ ~isInvalidString(p.assetDescription)
    /\ ~isInvalidString(p.ownerName)

\* C1: once a live record has status inactive, it has status inactive in every
\* later state in which its id is live.
C1_StatusMonotonic ==
    [][\A id \in DOMAIN store :
          (store[id].status = "inactive" /\ id \in DOMAIN store')
              => store'[id].status = "inactive"]_vars

\* C2: deleteAuction by a caller other than the owner fails and leaves the record
\* in the store, unchanged; a record leaves the store only through a
\* deleteAuction call of its owner.
C2_DeleteOwnerOnly ==
    [][\A id \in DOMAIN store :
          /\ \A c \in Callers(version) \ {Owner(id)} :
                 DeleteAuctionCall(id, c) => (last'.err # "Ok" /\ store' = store)
          /\ id \notin DOMAIN store' => DeleteAuctionCall(id, Owner(id))]_vars

\* C3 as stated: in every reachable state, updateAuction or endAuction on a live
\* record by a caller other than the owner fails with the authorization error and
\* leaves the store unchanged, whatever the clock, the status and the payload.
C3_NonOwnerAuthError ==
    \A id \in DOMAIN store : \A c \in Callers(version) \ {Owner(id)} :
        /\ \A p \in Payloads :
               updateAuction(version, store, uuidCalls, now, id, c, p)
                   = Outcome(store, uuidCalls, "NotOwner")
        /\ endAuction(version, store, uuidCalls, now, id, c)
               = Outcome(store, uuidCalls, "NotOwner")

\* C3 amended: such a call fails and leaves the store unchanged; the error is the
\* authorization error, except that updateAuction of the refined revision, which
\* validates the payload before it looks at the owner, reports incomplete input
\* data for a payload with a blank text field.
C3_NonOwnerRejected ==
    \A id \in DOMAIN store : \A c \in Callers(version) \ {Owner(id)} :
        /\ \A p \in Payloads :
               updateAuction(version, store, uuidCalls, now, id, c, p)
                   = Outcome(store, uuidCalls,
                             IF version = "refined" /\ ~ValidTexts(p)
                             THEN "Incomplete" ELSE "NotOwner")
        /\ endAuction(version, store, uuidCalls, now, id, c)
               = Outcome(store, uuidCalls, "NotOwner")

\* A non-owner's updateAuction or endAuction was just rejected for ownership.
C3_Witness ==
    /\ last.op \in {"updateAuction", "endAuction"}
    /\ last.err = "NotOwner"
    /\ store # EmptyStore

\* C4: the record a successful createAuction stores has status active, whatever
\* status the payload carries.
C4_CreatedActive ==
    [][\A c \in Callers(version), p \in Payloads :
          (CreateAuctionCall(c, p) /\ last'.err = "Ok")
              => store'[uuidv4(uuidCalls)].status = "active"]_vars

\* C5: endAuction by the owner on a live active record succeeds at every clock
\* time >= endDate, and is rejected only when the clock is < endDate.
C5_EndAtOrAfterEndDate ==
    [][\A id \in DOMAIN store :
          (store[id].status = "active" /\ EndAuctionCall(id, Owner(id)))
              => (last'.err = "Ok" <=> now >= store[id].endDate)]_vars

\* C6: in every reachable state, endAuction by the owner on a live active record
\* while the clock is < endDate fails with a state error and leaves the record as
\* it was: active, with the endDate set at creation.
C6_EarlyEndRejected ==
    \A id \in DOMAIN store :
        (store[id].status = "active" /\ now < store[id].endDate)
            => LET r == endAuction(version, store, uuidCalls, now, id, Owner(id))
               IN /\ r.err \in StateErrors
                  /\ r.store = store
                  /\ r.store[id].status = "active"
                  /\ r.store[id].endDate = r.store[id].startDate + fixedEndDate

\* The owner's endAuction on the only live record, active and inside its window,
\* was just rejected for the time.
C6_Witness ==
    /\ last.op = "endAuction"
    /\ last.err \in {"TimeLeft", "AlreadyEnded"}
    /\ \E id \in DOMAIN store :
           /\ DOMAIN store = {id}
           /\ store[id].status = "active"
           /\ now < store[id].endDate
           /\ now > store[id].startDate

\* C7: updateAuction by the owner with a valid payload at a clock time >= endDate
\* fails with a state error and leaves the record unchanged, whatever the status.
C7_NoUpdateAfterEndDate ==
    [][\A id \in DOMAIN store : \A p \in Payloads :
          (/\ ValidTexts(p)
           /\ now >= store[id].endDate
           /\ UpdateAuctionCall(id, Owner(id), p))
              => (last'.err \in StateErrors /\ store' = store)]_vars

\* C8: endAuction by the owner on a live inactive record fails as already ended
\* at every clock time and leaves the record unchanged.
C8_EndOnlyOnce ==
    [][\A id \in DOMAIN store :
          (store[id].status = "inactive" /\ EndAuctionCall(id, Owner(id)))
              => (last'.err = "AlreadyEnded" /\ store' = store)]_vars

\* C10: a step never changes the ownerId stored under an id that is live before
\* and after it.
C10_OwnerInvariant ==
    [][\A id \in DOMAIN store \cap DOMAIN store' :
          store'[id].ownerId = store[id].ownerId]_vars

\* A record created at time 0 was just ended by its owner, after a second
\* createAuction put a record of another owner beside it.
C10_Witness ==
    /\ last = [op |-> "endAuction", err |-> "Ok"]
    /\ Cardinality(DOMAIN store) = 2
    /\ \E id \in DOMAIN store :
           /\ store[id].status = "inactive"
           /\ store[id].startDate = 0
           /\ store[id].endDate = now
           /\ now > fixedEndDate
           /\ \E other \in DOMAIN store : store[other].ownerId # store[id].ownerId

\* C11: in every reachable state every live record has endDate >= startDate:
\* createAuction sets endDate to the creation time plus the fixed duration, and a
\* successful endAuction replaces endDate by the call time.
C11_TimeOrdering ==
    \A id \in DOMAIN store : store[id].endDate >= store[id].startDate

\* An endAuction just succeeded: one record carries the call time as its endDate,
\* later than its creation time plus the fixed duration, beside a record that
\* still carries the endDate createAuction gave it.
C11_Witness ==
    /\ last = [op |-> "endAuction", err |-> "Ok"]
    /\ \E id, other \in DOMAIN store :
           /\ store[id].endDate = now
           /\ store[id].endDate > store[id].startDate + fixedEndDate
           /\ store[other].status = "active"
           /\ store[other].endDate = store[other].startDate + fixedEndDate

\* C12: a successful updateAuction leaves the record's id, ownerId, startDate,
\* endDate and status as they were before the call, for every payload, and
\* stores the result under the same key.
C12_UpdateFrame ==
    [][\A id \in DOMAIN store : \A c \in Callers(version), p \in Payloads :
          (UpdateAuctionCall(id, c, p) /\ last'.err = "Ok")
              => /\ DOMAIN store' = DOMAIN store
                 /\ store'[id].id = store[id].id
                 /\ store'[id].ownerId = store[id].ownerId
                 /\ store'[id].startDate = store[id].startDate
                 /\ store'[id].endDate = store[id].endDate
                 /\ store'[id].status = store[id].status]_vars

\* C13: in every reachable state, an endAuction call that succeeds stores and
\* returns the previous record with endDate set to the clock time of the call and
\* status set to inactive; id, assetType, assetDescription, ownerName, ownerId and
\* startDate are as before, and no other key of the store is touched.
C13_EndEffect ==
    \A id \in DOMAIN store : \A c \in Callers(version) :
        LET r == endAuction(version, store, uuidCalls, now, id, c)
        IN r.err = "Ok"
               => /\ r.val = <<r.store[id]>>
                  /\ r.store = Insert(store, id, r.store[id])
                  /\ r.store[id].endDate = now
                  /\ r.store[id].status = "inactive"
                  /\ r.store[id].id = store[id].id
                  /\ r.store[id].assetType = store[id].assetType
                  /\ r.store[id].assetDescription = store[id].assetDescription
                  /\ r.store[id].ownerName = store[id].ownerName
                  /\ r.store[id].ownerId = store[id].ownerId
                  /\ r.store[id].startDate = store[id].startDate

\* The endAuction of the only live record just succeeded, at the first clock time
\* after its endDate.
C13_Witness ==
    /\ last = [op |-> "endAuction", err |-> "Ok"]
    /\ \E id \in DOMAIN store :
           /\ DOMAIN store = {id}
           /\ store[id].status = "inactive"
           /\ store[id].endDate = store[id].startDate + fixedEndDate + 1
           /\ store[id].endDate = now

\* C14: in every reachable state, a createAuction call by caller c at clock time
\* now that succeeds stores and returns a record with ownerId = c, startDate = now
\* and endDate = startDate + fixedEndDate, and getAuctionById with the returned id,
\* called next, returns that record.
C14_CreateThenRead ==
    \A c \in Callers(version), p \in Payloads :
        LET r == createAuction(version, store, uuidCalls, now, c, p)
        IN r.err = "Ok"
               => /\ Len(r.val) = 1
                  /\ Has(r.store, r.val[1].id)
                  /\ r.store[r.val[1].id] = r.val[1]
                  /\ r.val[1].ownerId = c
                  /\ r.val[1].startDate = now
                  /\ r.val[1].endDate = r.val[1].startDate + fixedEndDate
                  /\ getAuctionById(version, r.store, r.uuidCalls, r.val[1].id)
                         = Returned(r.store, r.uuidCalls, r.val)

\* The three text fields of a payload or of a record.
TextFields == {"assetType", "assetDescription", "ownerName"}

\* C15: in every reachable state, updateAuction by the owner of a live record
\* while the clock is < endDate, with a payload in which some of assetType,
\* assetDescription, ownerName are empty and the others are not, succeeds as a
\* field-wise merge: each empty field keeps the stored value and each non-empty
\* field takes the payload's value.
C15_PartialUpdateMerges ==
    \A id \in DOMAIN store : \A p \in Payloads :
        (/\ now < store[id].endDate
         /\ \E f \in TextFields : p[f] = Empty
         /\ \E f \in TextFields : p[f] # Empty)
            => LET r == updateAuction(version, store, uuidCalls, now, id, Owner(id), p)
               IN /\ r.err = "Ok"
                  /\ Has(r.store, id)
                  /\ \A f \in TextFields :
                         r.store[id][f] = IF p[f] = Empty THEN store[id][f] ELSE p[f]

\* A payload createAuction has to reject: a text field that is empty after
\* trimming, or a status other than active and inactive.
Incomplete(p) ==
    \/ \E f \in TextFields : Len(Trim(p[f])) = 0
    \/ p.status \notin {"active", "inactive"}

\* C16: in every reachable state, createAuction with a payload in which a text
\* field is empty after trimming (whitespace-only included) or the status is not
\* active or inactive fails with the incomplete-input error and leaves the store
\* unchanged; it inserts a record only when the payload passes all these checks.
C16_CreateValidates ==
    \A c \in Callers(version), p \in Payloads :
        LET r == createAuction(version, store, uuidCalls, now, c, p)
        IN /\ Incomplete(p) => r = Outcome(store, uuidCalls, "Incomplete")
           /\ r.store # store => ~Incomplete(p)

\* The ids createAuction has given out so far.
Issued(id) == id \in AuctionIds(version) /\ id <= uuidCalls

\* C17: in every reachable state deleteAuction of a live record by its owner
\* succeeds, returns the removed record, and getAuctionById of that id, called
\* next, fails with not-found; and no step makes an id live that was given out
\* and is no longer live, so getAuctionById keeps failing with not-found after
\* every further operation.
C17_DeletedStaysDeleted ==
    /\ [](\A id \in DOMAIN store :
             LET r == deleteAuction(version, store, uuidCalls, now, id, Owner(id))
             IN /\ r = Returned(Remove(store, id), uuidCalls, <<store[id]>>)
                /\ getAuctionById(version, r.store, r.uuidCalls, id)
                       = Outcome(r.store, r.uuidCalls, "NotFound"))
    /\ [][\A id \in AuctionIds(version) :
              (Issued(id) /\ ~Has(store, id))
                  => getAuctionById(version, store', uuidCalls', id)
                         = Outcome(store', uuidCalls', "NotFound")]_vars

\* In the refined revision, where only the owner's deleteAuction removes a
\* record: an id was deleted, a later createAuction made another record, and
\* getAuctionById just failed with not-found.
C17_Witness ==
    /\ version = "refined"
    /\ last = [op |-> "getAuctionById", err |-> "NotFound"]
    /\ \E id \in AuctionIds(version) :
           /\ Issued(id)
           /\ ~Has(store, id)
           /\ \E other \in DOMAIN store : other > id

\* The elements of a list.
Range(list) == {list[i] : i \in 1..Len(list)}

\* C18: in every reachable state getAuctionsByStatus(s) succeeds for s = active
\* and for s = inactive, returning exactly the live records whose status is s,
\* each once, and fails with the validation error for every other s.
C18_FilterByStatus ==
    \A s \in StatusArgs :
        LET r == getAuctionsByStatus(version, store, uuidCalls, s)
        IN IF s \in {"active", "inactive"}
           THEN /\ r.err = "Ok"
                /\ Range(r.val) = {store[id] : id \in {k \in DOMAIN store : store[k].status = s}}
                /\ Len(r.val) = Cardinality(Range(r.val))
           ELSE r.err = "InvalidStatus"

\* What the query calls return in the current state, for every argument.
QueryOutcomes ==
    {getAllAuctions(version, store, uuidCalls)}
        \cup {getAuctionById(version, store, uuidCalls, id) :
                  id \in AuctionIdArgs(version)}
        \cup {getOwnersAuctions(version, store, uuidCalls, o) :
                  o \in OwnerIdArgs(version)}
        \cup {getAuctionsByStatus(version, store, uuidCalls, s) : s \in StatusArgs}

\* C19: in every reachable state a call of getAuctionById, getAllAuctions,
\* getOwnersAuctions or getAuctionsByStatus leaves the store as it is, and
\* getAuctionById called after it returns, for every id, what getAuctionById
\* returns when called before it.
C19_ReadsChangeNothing ==
    \A r \in QueryOutcomes :
        /\ r.store = store
        /\ r.uuidCalls = uuidCalls
        /\ \A id \in AuctionIdArgs(version) :
               getAuctionById(version, r.store, r.uuidCalls, id)
                   = getAuctionById(version, store, uuidCalls, id)

\* getAuctionById just returned one of two live records.
C19_Witness ==
    /\ last = [op |-> "getAuctionById", err |-> "Ok"]
    /\ Cardinality(DOMAIN store) = 2

Ended(st, id) == st[id].endDate # st[id].startDate + fixedEndDate

\* C21: ending is final.  In every reachable state a successful endAuction leaves
\* the record ended, and on an ended record no updateAuction and no endAuction
\* succeeds, whoever calls and whatever the payload; and no step changes any of
\* the eight fields of an ended record that is live before and after it.
C21_EndingIsFinal ==
    /\ [](\A id \in DOMAIN store : \A c \in Callers(version) :
             LET e == endAuction(version, store, uuidCalls, now, id, c)
             IN /\ e.err = "Ok" => Ended(e.store, id)
                /\ Ended(store, id)
                       => /\ e.err # "Ok"
                          /\ \A p \in Payloads :
                                 updateAuction(version, store, uuidCalls, now, id, c, p).err
                                     # "Ok")
    /\ [][\A id \in DOMAIN store \cap DOMAIN store' :
              Ended(store, id) => store'[id] = store[id]]_vars

\* The stores st and after hold the same records under every key other than id.
SameElsewhere(st, after, id) ==
    /\ DOMAIN after \ {id} = DOMAIN st \ {id}
    /\ \A k \in DOMAIN st \ {id} : after[k] = st[k]

\* C22: in every reachable state, updateAuction, endAuction and deleteAuction
\* called with an id, whether the call succeeds or fails, leave every record
\* stored under another key unchanged and neither add nor remove another key.
C22_OtherRecordsUntouched ==
    \A id \in AuctionIdArgs(version) : \A c \in Callers(version) :
        /\ \A p \in Payloads :
               SameElsewhere(store,
                   updateAuction(version, store, uuidCalls, now, id, c, p).store, id)
        /\ SameElsewhere(store,
               endAuction(version, store, uuidCalls, now, id, c).store, id)
        /\ SameElsewhere(store,
               deleteAuction(version, store, uuidCalls, now, id, c).store, id)

\* An updateAuction just succeeded while two records are live, and the two
\* records differ in their text fields: one was rewritten, the other was not.
C22_Witness ==
    /\ last = [op |-> "updateAuction", err |-> "Ok"]
    /\ \E id, other \in DOMAIN store :
           /\ id # other
           /\ store[id].assetType # store[other].assetType
           /\ store[id].ownerName # store[other].ownerName

====
